---- MODULE Spec2Model ----
(***************************************************************************)
(* A model of beautify.py: the BeautifyPrinter rendering dispatcher, the   *)
(* title banner arithmetic, the table shape inference, the beautify_output *)
(* decorator, and the process-wide builtins.print override (global enable  *)
(* / disable, monkey patch, BeautifyContext).                              *)
(*                                                                         *)
(* Python strings are sequences of one-character strings.  Python values   *)
(* are records [type, n, s, items, entries]: n is the value of an int, s   *)
(* the characters of a str, items the elements of a list or tuple, entries *)
(* the key/value pairs of a dict in iteration order.                       *)
(***************************************************************************)
EXTENDS Integers, Sequences, FiniteSets, TLC

VARIABLES
    builtins_print,             \* builtins.print: the active print function
    beautifier_original_print,  \* beautifier._original_print (line 31)
    ctx_original_print,         \* BeautifyContext._original_print per instance
    withStack,                  \* the open with-blocks, innermost last
    hist,                       \* the override operations run so far
    call,                       \* the arguments of the latest print call
    writes,                     \* the console.print calls of the latest call
    raised,                     \* the exception the latest call raised, or ""
    mode,                       \* the rendering branch the latest call took
    decorated,                  \* what beautify_output(...)(func) closed over
    wrapperCall                 \* what the latest wrapper call did

vars == <<builtins_print, beautifier_original_print, ctx_original_print,
          withStack, hist, call, writes, raised, mode, decorated, wrapperCall>>

overrideVars == <<builtins_print, beautifier_original_print,
                  ctx_original_print, withStack, hist>>
printVars == <<call, writes, raised, mode>>
decoratorVars == <<decorated, wrapperCall>>

---------------------------------------------------------------------------
(* Bounds of the model.                                                    *)

MaxOps == 5          \* override operations in one run
NumContexts == 2     \* BeautifyContext instances
MaxArgs == 2         \* positional arguments of one print call
MaxTitleLen == 2     \* characters of a title
MaxWidth == 6        \* title_width values 0..MaxWidth besides the default
MaxRows == 2         \* elements of a list handed to table mode

(* title_width's default value.                                            *)
DefaultTitleWidth == 100

---------------------------------------------------------------------------
(* Python values.                                                          *)

PyStr(chars) ==
    [type |-> "str", n |-> 0, s |-> chars, items |-> <<>>, entries |-> <<>>]
PyInt(k) ==
    [type |-> "int", n |-> k, s |-> <<>>, items |-> <<>>, entries |-> <<>>]
PyNone ==
    [type |-> "NoneType", n |-> 0, s |-> <<>>, items |-> <<>>, entries |-> <<>>]
PyList(elems) ==
    [type |-> "list", n |-> 0, s |-> <<>>, items |-> elems, entries |-> <<>>]
PyTuple(elems) ==
    [type |-> "tuple", n |-> 0, s |-> <<>>, items |-> elems, entries |-> <<>>]
PyDict(pairs) ==
    [type |-> "dict", n |-> 0, s |-> <<>>, items |-> <<>>, entries |-> pairs]
Entry(k, v) == [key |-> k, value |-> v]

Digit(d) == <<"0", "1", "2", "3", "4", "5", "6", "7", "8", "9">>[d + 1]

RECURSIVE NatStr(_)
NatStr(k) == IF k < 10 THEN <<Digit(k)>>
             ELSE NatStr(k \div 10) \o <<Digit(k % 10)>>

(* str(int)                                                                *)
IntStr(k) == IF k < 0 THEN <<"-">> \o NatStr(-k) ELSE NatStr(k)

RECURSIVE Str(_), Repr(_), JoinRepr(_), JoinEntries(_)

(* ", ".join(repr(e) for e in items)                                       *)
JoinRepr(items) ==
    IF items = <<>> THEN <<>>
    ELSE Repr(Head(items)) \o
         (IF Len(items) > 1 THEN <<",", " ">> \o JoinRepr(Tail(items))
          ELSE <<>>)

(* ", ".join(repr(k) + ": " + repr(v) for k, v in entries)                 *)
JoinEntries(entries) ==
    IF entries = <<>> THEN <<>>
    ELSE Repr(Head(entries).key) \o <<":", " ">> \o Repr(Head(entries).value) \o
         (IF Len(entries) > 1 THEN <<",", " ">> \o JoinEntries(Tail(entries))
          ELSE <<>>)

(* Python's str(v)                                                         *)
Str(v) ==
    CASE v.type = "str" -> v.s
      [] v.type = "int" -> IntStr(v.n)
      [] v.type = "NoneType" -> <<"N", "o", "n", "e">>
      [] v.type = "list" -> <<"[">> \o JoinRepr(v.items) \o <<"]">>
      [] v.type = "tuple" ->
            <<"(">> \o JoinRepr(v.items) \o
            (IF Len(v.items) = 1 THEN <<",">> ELSE <<>>) \o <<")">>
      [] v.type = "dict" -> <<"{">> \o JoinEntries(v.entries) \o <<"}">>

(* Python's repr(v): a str is quoted, everything else prints as str(v)     *)
Repr(v) == IF v.type = "str" THEN <<"'">> \o v.s \o <<"'">> ELSE Str(v)

(* sep.join(strs)                                                          *)
RECURSIVE Join(_, _)
Join(sep, strs) ==
    IF strs = <<>> THEN <<>>
    ELSE IF Len(strs) = 1 THEN Head(strs)
    ELSE Head(strs) \o sep \o Join(sep, Tail(strs))

(* ch * count: a repeat count below one yields the empty string            *)
Repeat(ch, count) == [i \in 1..(IF count > 0 THEN count ELSE 0) |-> ch]

StrEach(seq) == [i \in 1..Len(seq) |-> Str(seq[i])]

---------------------------------------------------------------------------
(* Table shape inference: BeautifyPrinter._create_table.                   *)

IsDict(v) == v.type = "dict"
IsList(v) == v.type = "list"

(* dict.keys() and dict.values(), in iteration order                       *)
Keys(d) == [i \in 1..Len(d.entries) |-> d.entries[i].key]
Values(d) == [i \in 1..Len(d.entries) |-> d.entries[i].value]

(* d.get(k, default)                                                       *)
DictGet(d, k, default) ==
    IF \E i \in 1..Len(d.entries) : d.entries[i].key = k
    THEN d.entries[CHOOSE i \in 1..Len(d.entries) : d.entries[i].key = k].value
    ELSE default

(* What a for loop over v visits; ints and None are not iterable.          *)
IsIterable(v) == v.type \in {"list", "tuple", "dict", "str"}
Iter(v) ==
    CASE v.type \in {"list", "tuple"} -> v.items
      [] v.type = "dict" -> Keys(v)
      [] v.type = "str" -> [i \in 1..Len(v.s) |-> PyStr(<<v.s[i]>>)]
      [] OTHER -> <<>>

Table(columns, rows) == [kind |-> "Table", columns |-> columns, rows |-> rows]
Built(table) == [table |-> table, raised |-> ""]
Raise(exc) == [table |-> Table(<<>>, <<>>), raised |-> exc]

(* data is a dict: keys as columns, the values as the single row           *)
TableFromDict(data) ==
    Built(Table(StrEach(Keys(data)), <<StrEach(Values(data))>>))

(* each row built from the item's own values instead of the header keys    *)
TableFromDictsOwnValues(data) ==
    IF \E i \in 1..Len(data.items) : ~IsDict(data.items[i])
    THEN Raise("AttributeError")
    ELSE Built(Table(StrEach(Keys(data.items[1])),
                     [i \in 1..Len(data.items) |->
                         StrEach(Values(data.items[i]))]))

(* data[0] is a dict: its keys as columns, one row per item               *)
TableFromDicts(data) ==
    LET keys == Keys(data.items[1])
        row(item) == [j \in 1..Len(keys) |->
                         Str(DictGet(item, keys[j], PyStr(<<>>)))]
    IN  IF \E i \in 1..Len(data.items) : ~IsDict(data.items[i])
        THEN Raise("AttributeError")      \* item.get on a non-dict
        ELSE Built(Table(StrEach(keys),
                         [i \in 1..Len(data.items) |-> row(data.items[i])]))

(* data[0] is a list or tuple: it gives the headers, data[1:] the rows     *)
TableFromRows(data) ==
    LET body == Tail(data.items)
    IN  IF \E i \in 1..Len(body) : ~IsIterable(body[i])
        THEN Raise("TypeError")           \* for item in row, row not iterable
        ELSE Built(Table(StrEach(data.items[1].items),
                         [i \in 1..Len(body) |-> StrEach(Iter(body[i]))]))

(* the simple list with its first item taken for a header row             *)
TableFromValuesSkippingFirst(data) ==
    Built(Table(<< <<"V", "a", "l", "u", "e">> >>,
                [i \in 1..Len(Tail(data.items)) |->
                    <<Str(Tail(data.items)[i])>>]))

(* a simple list: the single column "Value"                                *)
TableFromValues(data) ==
    Built(Table(<< <<"V", "a", "l", "u", "e">> >>,
                [i \in 1..Len(data.items) |-> <<Str(data.items[i])>>]))

create_table(data) ==
    IF IsDict(data) THEN TableFromDict(data)
    ELSE IF IsList(data) /\ data.items # <<>> THEN
        IF IsDict(data.items[1]) THEN TableFromDicts(data)
        ELSE IF data.items[1].type \in {"list", "tuple"} THEN TableFromRows(data)
        ELSE TableFromValues(data)
    ELSE Built(Table(<<>>, <<>>))

---------------------------------------------------------------------------
(* The renderables handed to console.print, and the sink writes.           *)

Markup(chars) == [kind |-> "str", text |-> chars]
Markdown(content) == [kind |-> "Markdown", markup |-> content]
Syntax(content, language, theme, line_numbers) ==
    [kind |-> "Syntax", code |-> content, language |-> language,
     theme |-> theme, line_numbers |-> line_numbers]
Pretty(content, expand_all, indent_guides) ==
    [kind |-> "Pretty", object |-> content, expand_all |-> expand_all,
     indent_guides |-> indent_guides]
Panel(output, title, style, expand) ==
    [kind |-> "Panel", renderable |-> output, title |-> title,
     style |-> style, expand |-> expand]
NoRenderable == [kind |-> "nothing"]

(* One console.print call: the renderable and the forwarded kwargs.        *)
Write(renderable, kwargs) == [renderable |-> renderable, kwargs |-> kwargs]

---------------------------------------------------------------------------
(* The title banner: BeautifyPrinter._print_with_title.                    *)

(* separator_len computed without the two spaces around the title         *)
SeparatorLenNoSpaces(title, width) == (width - Len(title)) \div 2

(* separator_len of the centered banner                                    *)
SeparatorLen(title, width) == (width - Len(title) - 2) \div 2

CenterBanner(title, width) ==
    LET separator_len == SeparatorLen(title, width)
        left_sep == Repeat("-", separator_len)
        right_sep == Repeat("-", width - Len(title) - 2 - separator_len)
    IN  left_sep \o <<" ">> \o title \o <<" ">> \o right_sep

LeftBanner(title, width) ==
    title \o <<" ">> \o Repeat("-", width - Len(title) - 1)

RightBanner(title, width) ==
    Repeat("-", width - Len(title) - 1) \o <<" ">> \o title

(* f"[{style}]...[/{style}]"                                               *)
Styled(style, text) ==
    <<"[">> \o style \o <<"]">> \o text \o <<"[", "/">> \o style \o <<"]">>

FormattedTitle(title, width, style, align) ==
    IF align = "center" THEN Styled(style, CenterBanner(title, width))
    ELSE IF align = "left" THEN Styled(style, LeftBanner(title, width))
    ELSE Styled(style, RightBanner(title, width))

(* The two console.print calls: the banner, without the caller's kwargs,   *)
(* then the object with them.                                              *)
print_with_title(obj, title, width, style, align, kwargs) ==
    << Write(Markup(FormattedTitle(title, width, style, align)), <<>>),
       Write(obj, kwargs) >>

---------------------------------------------------------------------------
(* The dispatcher: BeautifyPrinter.print.                                  *)

BoldCyan == <<"b", "o", "l", "d", " ", "c", "y", "a", "n">>

(* The keyword defaults of print's signature.                              *)
PrintDefaults ==
    [title |-> <<>>, panel |-> FALSE, markdown |-> FALSE, code |-> FALSE,
     table |-> FALSE, sep |-> <<" ">>, expand_all |-> TRUE,
     indent_guides |-> TRUE, panel_style |-> BoldCyan, panel_expand |-> TRUE,
     title_width |-> DefaultTitleWidth, title_style |-> BoldCyan,
     title_align |-> "center", language |-> "python", theme |-> "monokai",
     line_numbers |-> FALSE, kwargs |-> <<>>]

(* content: several arguments are joined as strings, one is kept as is     *)
Content(args, sep) ==
    IF Len(args) > 1 THEN PyStr(Join(sep, StrEach(args))) ELSE args[1]

(* the chain with the code branch tested before the markdown branch        *)
SelectModeCodeFirst(content, kw) ==
    IF kw.code THEN "code"
    ELSE IF kw.markdown THEN "markdown"
    ELSE IF kw.table /\ content.type \in {"list", "dict"} THEN "table"
    ELSE "pretty"

(* The branch of the if / elif chain of lines 111-138 that runs.           *)
SelectMode(content, kw) ==
    IF kw.markdown THEN "markdown"
    ELSE IF kw.code THEN "code"
    ELSE IF kw.table /\ content.type \in {"list", "dict"} THEN "table"
    ELSE "pretty"

(* output, and the exception building it raised ("" for none)              *)
Render(content, kw) ==
    LET m == SelectMode(content, kw)
    IN  CASE m = "markdown" ->
               [output |-> Markdown(Str(content)), raised |-> ""]
          [] m = "code" ->
               [output |-> Syntax(Str(content), kw.language, kw.theme,
                                  kw.line_numbers),
                raised |-> ""]
          [] m = "table" ->
               [output |-> create_table(content).table,
                raised |-> create_table(content).raised]
          [] OTHER ->
               [output |-> Pretty(content, kw.expand_all, kw.indent_guides),
                raised |-> ""]

(* Lines 140-155: the title banner, the panel, or the bare output.         *)
Emit(output, kw) ==
    IF kw.title # <<>> /\ ~kw.panel
    THEN print_with_title(output, kw.title, kw.title_width, kw.title_style,
                          kw.title_align, kw.kwargs)
    ELSE IF kw.panel
    THEN << Write(Panel(output,
                        IF kw.title # <<>> THEN PyStr(kw.title) ELSE PyNone,
                        kw.panel_style, kw.panel_expand),
                  kw.kwargs) >>
    ELSE << Write(output, kw.kwargs) >>

(* One call of BeautifyPrinter.print: the branch taken, the sink writes    *)
(* made, and the exception raised.                                         *)
BeautifyPrinter_print(args, kw) ==
    IF args = <<>>
    THEN [mode |-> "empty", writes |-> <<Write(NoRenderable, kw.kwargs)>>,
          raised |-> ""]
    ELSE LET content == Content(args, kw.sep)
             r == Render(content, kw)
         IN  [mode |-> SelectMode(content, kw),
              writes |-> IF r.raised = "" THEN Emit(r.output, kw) ELSE <<>>,
              raised |-> r.raised]

(* bprint: forwards its arguments to beautifier.print                      *)
bprint(args, kw) == BeautifyPrinter_print(args, kw)

---------------------------------------------------------------------------
(* The decorator: beautify_output.                                         *)

OutputFrom == <<"O", "u", "t", "p", "u", "t", " ", "f", "r", "o", "m", " ">>

(* the generated title used even when a title was supplied                 *)
DisplayTitleAlwaysGenerated(title, func) == OutputFrom \o func.name

(* display_title = title or f"Output from {func.__name__}"                 *)
DisplayTitle(title, func) ==
    IF title # <<>> THEN title ELSE OutputFrom \o func.name

(* One call of the wrapper closed over dec: the calls of func and of       *)
(* bprint it makes, what bprint does, and how the wrapper ends.            *)
Wrapper(dec) ==
    IF dec.func.raises
    THEN [funcCalls |-> 1, bprintCalls |-> <<>>, returned |-> FALSE,
          result |-> PyNone, raised |-> "Exception"]
    ELSE LET result == dec.func.returns
             kw == [PrintDefaults EXCEPT
                       !.title = DisplayTitle(dec.title, dec.func),
                       !.panel = dec.panel, !.markdown = dec.markdown,
                       !.code = dec.code, !.table = dec.table]
             printed == bprint(<<result>>, kw)
         IN  [funcCalls |-> 1,
              bprintCalls |-> <<[args |-> <<result>>, kw |-> kw]>>,
              returned |-> printed.raised = "",
              result |-> IF printed.raised = "" THEN result ELSE PyNone,
              raised |-> printed.raised]

---------------------------------------------------------------------------
(* The print override.  A function reference is [site, id]: the built-in   *)
(* print, or the lambda object created at a site by the id-th operation.   *)

OriginalPrint == [site |-> "builtins", id |-> 0]
Unset == [site |-> "unset", id |-> 0]
Lambda(site) == [site |-> site, id |-> Len(hist) + 1]

Contexts == 1..NumContexts

(* The record of one override operation: the reference active before it,   *)
(* the one active after it and, for __exit__, the one that was active      *)
(* immediately before the matching __enter__.                              *)
Op(name, ctx, exc, after, entered) ==
    [op |-> name, ctx |-> ctx, exc |-> exc, prior |-> builtins_print,
     print |-> after, entered |-> entered]

---------------------------------------------------------------------------
(* The inputs the operations are tried on.                                 *)

Title(len) == [i \in 1..len |-> "T"]
Titles == {Title(len) : len \in 0..MaxTitleLen}
Widths == (0..MaxWidth) \cup {DefaultTitleWidth}
Aligns == {"left", "center", "right"}

OneEntryDict == PyDict(<<Entry(PyStr(<<"k">>), PyInt(1))>>)
(* a list whose first element is a dict and whose second is not            *)
BrokenRows == PyList(<<OneEntryDict, PyInt(3)>>)

PrintValues ==
    { PyStr(<<"h", "i">>), PyInt(7), PyList(<<PyInt(1), PyStr(<<"a">>)>>),
      PyTuple(<<PyInt(1), PyInt(2)>>), OneEntryDict, BrokenRows }

(* the values of calls with several arguments                              *)
JoinedValues == { PyStr(<<"h", "i">>), PyList(<<PyInt(1), PyStr(<<"a">>)>>) }

ArgTuples ==
    {<<>>} \cup {<<v>> : v \in PrintValues}
           \cup UNION {[1..len -> JoinedValues] : len \in 2..MaxArgs}

KwargsOf(title, panel, markdown, code, table, width, align) ==
    [PrintDefaults EXCEPT !.title = title, !.panel = panel,
                          !.markdown = markdown, !.code = code,
                          !.table = table, !.title_width = width,
                          !.title_align = align]

(* The data handed to table mode.                                          *)
Scalars == {PyInt(12), PyStr(<<"x">>), PyNone}
CellValues == {PyInt(12), PyStr(<<"x">>)}
KeyA == PyStr(<<"a">>)
KeyB == PyInt(2)
Dicts ==
    {PyDict(<<>>)}
    \cup {PyDict(<<Entry(k, v)>>) : k \in {KeyA, KeyB}, v \in CellValues}
    \cup {PyDict(<<Entry(KeyA, v), Entry(KeyB, w)>>) :
             v \in CellValues, w \in CellValues}
    \cup {PyDict(<<Entry(KeyB, v), Entry(KeyA, w)>>) :
             v \in CellValues, w \in CellValues}
RowValues == { PyList(<<PyStr(<<"h">>), PyInt(1)>>), PyTuple(<<PyInt(3)>>) }
Elements == Dicts \cup Scalars \cup RowValues
ElementSeqs == UNION {[1..len -> Elements] : len \in 0..MaxRows}
TableData ==
    Dicts \cup {PyList(elems) : elems \in ElementSeqs}
          \cup {PyTuple(elems) : elems \in [1..1 -> Elements]}

(* The functions handed to the decorator.                                  *)
Func(name, returns, raises) ==
    [name |-> name, returns |-> returns, raises |-> raises]
Funcs ==
    { Func(<<"f">>, PyInt(7), FALSE),
      Func(<<"g", "e", "t">>, OneEntryDict, FALSE),
      Func(<<"r", "o", "w", "s">>, BrokenRows, FALSE),
      Func(<<"b", "o", "o", "m">>, PyNone, TRUE) }

---------------------------------------------------------------------------
(* The state after the module is imported.                                 *)

NoWrapperCall ==
    [funcCalls |-> 0, bprintCalls |-> <<>>, returned |-> FALSE,
     result |-> PyNone, raised |-> ""]

Init ==
    /\ builtins_print = OriginalPrint
    /\ beautifier_original_print = builtins_print
    /\ ctx_original_print = [c \in Contexts |-> Unset]
    /\ withStack = <<>>
    /\ hist = <<>>
    /\ call = [args |-> <<>>, kw |-> PrintDefaults]
    /\ writes = <<>>
    /\ raised = ""
    /\ mode = "none"
    /\ decorated = [set |-> FALSE, title |-> <<>>, panel |-> FALSE,
                    markdown |-> FALSE, code |-> FALSE, table |-> FALSE,
                    func |-> Func(<<"f">>, PyInt(7), FALSE)]
    /\ wrapperCall = NoWrapperCall

---------------------------------------------------------------------------
(* Printing.                                                               *)

(* One beautifier.print call, observed at the sink.                        *)
print(args, kw) ==
    /\ call' = [args |-> args, kw |-> kw]
    /\ writes' = BeautifyPrinter_print(args, kw).writes
    /\ raised' = BeautifyPrinter_print(args, kw).raised
    /\ mode' = BeautifyPrinter_print(args, kw).mode

(* The caller is between two print calls.                                  *)
Idle == mode = "none"

(* The call returns to its caller, or its exception reaches the caller.    *)
Return ==
    /\ ~Idle \/ wrapperCall # NoWrapperCall
    /\ call' = [args |-> <<>>, kw |-> PrintDefaults]
    /\ writes' = <<>>
    /\ raised' = ""
    /\ mode' = "none"
    /\ wrapperCall' = NoWrapperCall
    /\ UNCHANGED <<overrideVars, decorated>>

PrintCall ==
    /\ Idle
    /\ \E args \in ArgTuples, title \in Titles, width \in Widths,
          align \in Aligns, panel \in BOOLEAN, markdown \in BOOLEAN,
          code \in BOOLEAN, table \in BOOLEAN :
            print(args, KwargsOf(title, panel, markdown, code, table,
                                 width, align))
    /\ UNCHANGED <<overrideVars, decoratorVars>>

(* bprint(data, table=True)                                                *)
TableCall ==
    /\ Idle
    /\ \E data \in TableData :
            print(<<data>>, [PrintDefaults EXCEPT !.table = TRUE])
    /\ UNCHANGED <<overrideVars, decoratorVars>>

---------------------------------------------------------------------------
(* Decorating and calling the decorated function.                          *)

beautify_output ==
    /\ Idle /\ wrapperCall = NoWrapperCall
    /\ \E title \in Titles, func \in Funcs, panel \in BOOLEAN,
          markdown \in BOOLEAN, code \in BOOLEAN, table \in BOOLEAN :
            decorated' = [set |-> TRUE, title |-> title, panel |-> panel,
                          markdown |-> markdown, code |-> code,
                          table |-> table, func |-> func]
    /\ wrapperCall' = NoWrapperCall
    /\ UNCHANGED <<overrideVars, printVars>>

wrapper ==
    /\ Idle /\ wrapperCall = NoWrapperCall
    /\ decorated.set
    /\ wrapperCall' = Wrapper(decorated)
    /\ IF Wrapper(decorated).bprintCalls # <<>>
       THEN print(Wrapper(decorated).bprintCalls[1].args,
                  Wrapper(decorated).bprintCalls[1].kw)
       ELSE UNCHANGED printVars
    /\ UNCHANGED <<decorated, overrideVars>>

---------------------------------------------------------------------------
(* The override operations.  Each runs only while fewer than MaxOps have.  *)

(* monkey_patch_print saving the reference it replaces                     *)
MonkeyPatchedSaving ==
    [print |-> Lambda("monkey_patch_print"), saved |-> builtins_print]

(* BeautifyPrinter.monkey_patch_print: installs a new lambda and leaves    *)
(* the saved reference alone.                                              *)
MonkeyPatched ==
    [print |-> Lambda("monkey_patch_print"),
     saved |-> beautifier_original_print]

monkey_patch_print ==
    /\ Len(hist) < MaxOps
    /\ builtins_print' = MonkeyPatched.print
    /\ beautifier_original_print' = MonkeyPatched.saved
    /\ hist' = Append(hist, Op("monkey_patch_print", 0, FALSE,
                               MonkeyPatched.print, Unset))
    /\ UNCHANGED <<ctx_original_print, withStack, printVars, decoratorVars>>

(* restore_print as a stack pop: back to what the latest operation        *)
(* replaced.                                                               *)
RestoredPrevious ==
    IF hist # <<>> THEN hist[Len(hist)].prior ELSE beautifier_original_print

(* BeautifyPrinter.restore_print: the reference it assigns                 *)
Restored == beautifier_original_print

restore_print ==
    /\ builtins_print' = Restored
    /\ UNCHANGED beautifier_original_print

enable_beautiful_print ==
    /\ Len(hist) < MaxOps
    /\ builtins_print' = Lambda("enable_beautiful_print")
    /\ hist' = Append(hist, Op("enable_beautiful_print", 0, FALSE,
                               Lambda("enable_beautiful_print"), Unset))
    /\ UNCHANGED <<beautifier_original_print, ctx_original_print, withStack,
                   printVars, decoratorVars>>

disable_beautiful_print ==
    /\ Len(hist) < MaxOps
    /\ restore_print
    /\ hist' = Append(hist, Op("disable_beautiful_print", 0, FALSE,
                               Restored, Unset))
    /\ UNCHANGED <<ctx_original_print, withStack, printVars, decoratorVars>>

(* BeautifyContext.__enter__ on instance ctx, at the top of a with block   *)
Enter(ctx) ==
    /\ Len(hist) < MaxOps
    /\ ctx_original_print' = [ctx_original_print EXCEPT ![ctx] = builtins_print]
    /\ builtins_print' = Lambda("BeautifyContext")
    /\ withStack' = Append(withStack, [ctx |-> ctx, before |-> builtins_print])
    /\ hist' = Append(hist, Op("enter", ctx, FALSE,
                               Lambda("BeautifyContext"), Unset))
    /\ UNCHANGED <<beautifier_original_print, printVars, decoratorVars>>

(* BeautifyContext.__exit__ of the innermost open block, which ends        *)
(* normally (exc = FALSE) or by an exception that __exit__ lets propagate. *)
Exit(exc) ==
    /\ Len(hist) < MaxOps
    /\ withStack # <<>>
    /\ LET top == withStack[Len(withStack)]
       IN  /\ builtins_print' = ctx_original_print[top.ctx]
           /\ hist' = Append(hist, Op("exit", top.ctx, exc,
                                      ctx_original_print[top.ctx], top.before))
    /\ withStack' = SubSeq(withStack, 1, Len(withStack) - 1)
    /\ UNCHANGED <<beautifier_original_print, ctx_original_print, printVars,
                   decoratorVars>>

EnterContext == \E ctx \in Contexts : Enter(ctx)
ExitContext == \E exc \in BOOLEAN : Exit(exc)

---------------------------------------------------------------------------
(* The specifications: the override operations in any order; print calls   *)
(* with any arguments; table-mode calls on any data; decorating and        *)
(* calling.                                                                *)

NextOverride ==
    \/ enable_beautiful_print
    \/ disable_beautiful_print
    \/ monkey_patch_print
    \/ EnterContext
    \/ ExitContext

NextPrint == PrintCall \/ Return
NextTable == TableCall \/ Return
NextDecorator == beautify_output \/ wrapper \/ Return

Next == NextOverride \/ NextDecorator \/ PrintCall \/ TableCall

Spec == Init /\ [][Next]_vars
SpecOverride == Init /\ [][NextOverride]_vars
SpecPrint == Init /\ [][NextPrint]_vars
SpecTable == Init /\ [][NextTable]_vars
SpecDecorator == Init /\ [][NextDecorator]_vars

---------------------------------------------------------------------------
(* Properties of the print override, under SpecOverride.                   *)

Ops == 1..Len(hist)
LastOp == hist[Len(hist)]
IsEnable(i) == hist[i].op = "enable_beautiful_print"
IsDisable(i) == hist[i].op = "disable_beautiful_print"
IsPatch(i) == hist[i].op = "monkey_patch_print"
IsEnter(i) == hist[i].op = "enter"
IsExit(i) == hist[i].op = "exit"

(* C1: after every __exit__, normal or exceptional, builtins.print is the  *)
(* reference that was active immediately before the matching __enter__.    *)
C1_ExitRestoresReferenceBeforeEnter ==
    \A i \in Ops : IsExit(i) => hist[i].print = hist[i].entered

(* C2: enable, enable, disable leaves builtins.print at the function the   *)
(* first enable installed.                                                 *)
C2_DisableAfterTwoEnablesRestoresFirst ==
    \A i \in Ops :
        (i + 2 = Len(hist) /\ IsEnable(i) /\ IsEnable(i + 1) /\ IsDisable(i + 2))
            => builtins_print = hist[i].print

(* C3: the reference the global beautifier saved at initialization never   *)
(* changes, and disable_beautiful_print sets builtins.print to exactly it.  *)
C3_SavedReferenceFixedAndRestored ==
    /\ beautifier_original_print = OriginalPrint
    /\ (hist # <<>> /\ IsDisable(Len(hist)))
            => builtins_print = beautifier_original_print

(* C3 witness: disable ran last, on an overridden print, after an enable,  *)
(* a monkey patch and a context entry.                                     *)
C3_Witness ==
    /\ hist # <<>> /\ IsDisable(Len(hist))
    /\ LastOp.prior # OriginalPrint
    /\ \E i, j, k \in Ops : IsEnable(i) /\ IsPatch(j) /\ IsEnter(k)

(* The latest disable came after every enable and every monkey patch.      *)
DisabledSinceEnable ==
    \E i \in Ops : IsDisable(i) /\ \A j \in Ops : j > i => ~IsEnable(j) /\ ~IsPatch(j)

---------------------------------------------------------------------------
(* Properties of one print call, under SpecPrint.                          *)

(* A call with at least one value is in progress.                          *)
Called == ~Idle /\ call.args # <<>>
CallContent == Content(call.args, call.kw.sep)

(* The renderable written for the content: the last write, or what the     *)
(* panel of the last write wraps.                                          *)
Rendered ==
    LET r == writes[Len(writes)].renderable
    IN  IF r.kind = "Panel" THEN r.renderable ELSE r
ContentKinds == {"Markdown", "Syntax", "Table", "Pretty"}
KindOf(m) ==
    CASE m = "markdown" -> "Markdown" [] m = "code" -> "Syntax"
      [] m = "table" -> "Table" [] OTHER -> "Pretty"

(* The mode the priority markdown > code > table > pretty-print asks for,  *)
(* table counting only for content of one of the given types.              *)
ModeByPriority(tabular) ==
    IF call.kw.markdown THEN "markdown"
    ELSE IF call.kw.code THEN "code"
    ELSE IF call.kw.table /\ CallContent.type \in tabular THEN "table"
    ELSE "pretty"

RendersAs(m) ==
    /\ mode = m
    /\ raised = "" => Rendered.kind = KindOf(m)
    /\ raised # "" => m = "table"

(* C4: the mode is chosen by the priority markdown > code > table >        *)
(* pretty-print, table applying to a mapping or an ordered sequence.       *)
C4_ModeByPriority ==
    Called => RendersAs(ModeByPriority({"dict", "list", "tuple"}))

(* C4, amended: the same with table applying to a dict or a list only; a   *)
(* tuple is pretty-printed like any other content.                         *)
C4_ModeByPriorityListOrDict ==
    Called => RendersAs(ModeByPriority({"dict", "list"}))

(* C4 witness: table alone is set on an int, which is pretty-printed.      *)
C4_Witness ==
    /\ Called /\ call.kw.table /\ ~call.kw.markdown /\ ~call.kw.code
    /\ CallContent.type = "int"
    /\ raised = "" /\ writes # <<>> /\ Rendered.kind = "Pretty"

IsBanner(w) == w.renderable.kind = "str"
IsContent(w) == w.renderable.kind \in ContentKinds

WritesByTitleAndPanel ==
    IF call.kw.title # <<>> /\ ~call.kw.panel
    THEN Len(writes) = 2 /\ IsBanner(writes[1]) /\ IsContent(writes[2])
    ELSE IF call.kw.panel
    THEN /\ Len(writes) = 1
         /\ writes[1].renderable.kind = "Panel"
         /\ IsContent([renderable |-> writes[1].renderable.renderable])
         /\ writes[1].renderable.title =
               (IF call.kw.title # <<>> THEN PyStr(call.kw.title) ELSE PyNone)
    ELSE Len(writes) = 1 /\ IsContent(writes[1])

(* C5: a titled call without panel makes two writes, banner then content;  *)
(* a panel call one write, the panel carrying the title; any other call    *)
(* one write of the content.                                               *)
C5_WritesByTitleAndPanel == Called => WritesByTitleAndPanel

(* The same of the calls that raise nothing.                               *)
WritesByTitleAndPanelWhenReturning ==
    (Called /\ raised = "") => WritesByTitleAndPanel

(* The text of the banner between "[style]" and "[/style]".                *)
BannerText ==
    LET text == writes[1].renderable.text
        style == call.kw.title_style
    IN  SubSeq(text, Len(style) + 3, Len(text) - Len(style) - 3)

Dashes(count) == [i \in 1..count |-> "-"]

(* C6: the centered banner is left-fill, space, title, space, right-fill,  *)
(* of length width with left-fill (width - len(title) - 2) // 2 when       *)
(* width >= len(title) + 2, and with both fills empty otherwise.           *)
C6_CenteredBannerWidth ==
    (Called /\ Len(writes) = 2 /\ call.kw.title_align = "center") =>
        LET title == call.kw.title
            width == call.kw.title_width
            left == (width - Len(title) - 2) \div 2
        IN  IF width >= Len(title) + 2
            THEN /\ Len(BannerText) = width
                 /\ BannerText = Dashes(left) \o <<" ">> \o title \o <<" ">>
                                 \o Dashes(width - Len(title) - 2 - left)
            ELSE BannerText = <<" ">> \o title \o <<" ">>

(* C6 witness: a centered banner narrower than its title was written.      *)
C6_Witness ==
    /\ Called /\ Len(writes) = 2 /\ call.kw.title_align = "center"
    /\ call.kw.title_width < Len(call.kw.title) + 2
    /\ Len(BannerText) = Len(call.kw.title) + 2

---------------------------------------------------------------------------
(* Properties of table shape inference, under SpecTable.                   *)

(* The data of a table-mode call in progress, and the table written.       *)
TableCalled == ~Idle /\ Len(call.args) = 1 /\ call.kw.table
Data == call.args[1]
Inferred == writes[1].renderable

NonEmptyListOf(types) ==
    /\ Data.type = "list" /\ Data.items # <<>>
    /\ \A i \in 1..Len(Data.items) : Data.items[i].type \in types

HasKey(d, k) == \E e \in 1..Len(d.entries) : d.entries[e].key = k
ValueAt(d, k) ==
    d.entries[CHOOSE e \in 1..Len(d.entries) : d.entries[e].key = k].value

---------------------------------------------------------------------------
(* Properties of the decorator, under SpecDecorator.                       *)

WrapperCalled == wrapperCall.funcCalls # 0
Forwarded == wrapperCall.bprintCalls[1]

====
